---- MODULE Spec2Model ----
(***************************************************************************)
(* Model of src/backend/py_template/devdonalds.py: the cookbook registry,  *)
(* the POST /entry handler with its two validators, and the GET /summary   *)
(* handler with the recursive handleItemInfo.                              *)
(***************************************************************************)
EXTENDS Integers, Sequences, FiniteSets, TLC

VARIABLES
    cookbook,   \* the module-level dict: entry name -> stored request body
    response,   \* body and status of the last HTTP response
    queried     \* request.args['name'] of the last GET /summary ("" otherwise)

vars == <<cookbook, response, queried>>

(***************************************************************************)
(* Bounds.                                                                 *)
(***************************************************************************)
\* longest requiredItems list that is submitted
MaxItems == 2
\* interpreter recursion limit; larger than any acyclic chain over Names
RecursionLimit == 4

Names == {"egg", "flour", "cake"}

(***************************************************************************)
(* JSON values as Python sees them.  Every value is a record of the same   *)
(* shape: t is the Python type, s the text of a str, i the number of an    *)
(* int / bool / float, l the elements of a list.                           *)
(***************************************************************************)
PyNone     == [t |-> "none",  s |-> "", i |-> 0, l |-> <<>>]
PyStr(x)   == [t |-> "str",   s |-> x,  i |-> 0, l |-> <<>>]
PyInt(n)   == [t |-> "int",   s |-> "", i |-> n, l |-> <<>>]
PyBool(b)  == [t |-> "bool",  s |-> "", i |-> IF b THEN 1 ELSE 0, l |-> <<>>]
\* the float n + 0.5
PyFloat(n) == [t |-> "float", s |-> "", i |-> n, l |-> <<>>]
PyList(xs) == [t |-> "list",  s |-> "", i |-> 0, l |-> xs]

\* Python truthiness, as used by every `not x` test of the handlers
Truthy(v) ==
    CASE v.t = "none"  -> FALSE
      [] v.t = "str"   -> v.s # ""
      [] v.t = "int"   -> v.i # 0
      [] v.t = "bool"  -> v.i # 0
      [] v.t = "float" -> TRUE
      [] v.t = "list"  -> Len(v.l) > 0

\* a requiredItems element: a JSON object read with .get('name') / .get('quantity')
Item(n, q) == [name |-> n, quantity |-> q]

\* a request body of POST /entry; an absent key reads as None through .get
Entry(n, ty, ct, ri) == [name |-> n, type |-> ty, cookTime |-> ct, requiredItems |-> ri]

(***************************************************************************)
(* Python dicts keep insertion order: a dict name -> quantity is a         *)
(* sequence of rows with distinct names.                                   *)
(***************************************************************************)
DictHas(d, k) == \E j \in 1..Len(d) : d[j].name = k

DictGet(d, k, default) ==
    IF DictHas(d, k) THEN d[CHOOSE j \in 1..Len(d) : d[j].name = k].quantity ELSE default

DictSet(d, k, v) ==
    IF DictHas(d, k)
    THEN [j \in 1..Len(d) |-> IF d[j].name = k THEN [name |-> k, quantity |-> v] ELSE d[j]]
    ELSE Append(d, [name |-> k, quantity |-> v])

(***************************************************************************)
(* Task 2: validators.                                                     *)
(***************************************************************************)
\* RecipeItemsValid without the `name in nameSet` test
RECURSIVE RecipeItemsValidRepeats(_, _, _)
RecipeItemsValidRepeats(items, i, nameSet) ==
    IF i > Len(items) THEN TRUE
    ELSE LET name     == items[i].name
             quantity == items[i].quantity
         IN  IF ~Truthy(name) \/ name.t # "str" THEN FALSE
             ELSE IF ~Truthy(quantity) \/ quantity.t # "int" THEN FALSE
             ELSE IF quantity.i <= 0 THEN FALSE
             ELSE RecipeItemsValidRepeats(items, i + 1, nameSet \cup {name.s})

\* the for loop of isRecipeValid from element i on, nameSet being the names seen
RECURSIVE RecipeItemsValid(_, _, _)
RecipeItemsValid(items, i, nameSet) ==
    IF i > Len(items) THEN TRUE
    ELSE LET name     == items[i].name
             quantity == items[i].quantity
         IN  IF ~Truthy(name) \/ name.t # "str" THEN FALSE
             ELSE IF name.s \in nameSet THEN FALSE
             ELSE IF ~Truthy(quantity) \/ quantity.t # "int" THEN FALSE
             ELSE IF quantity.i <= 0 THEN FALSE
             ELSE RecipeItemsValid(items, i + 1, nameSet \cup {name.s})

isRecipeValid(entry) ==
    LET requiredItems == entry.requiredItems
    IN  IF ~Truthy(requiredItems) \/ requiredItems.t # "list" THEN FALSE
        ELSE RecipeItemsValid(requiredItems.l, 1, {})

isIngredientValid(entry) ==
    LET cookTime == entry.cookTime
    IN  IF ~Truthy(cookTime) \/ cookTime.t # "int" THEN FALSE
        ELSE IF cookTime.i < 0 THEN FALSE
        ELSE TRUE

\* CreateResult without the `entryName in cookbook` test
CreateResultOverwrite(cb, entry) ==
    LET entryName == entry.name
        entryType == entry.type
    IN  IF ~Truthy(entryName) THEN [msg |-> "name not found", status |-> 400]
        ELSE IF entryName.t # "str" THEN [msg |-> "name must be a str", status |-> 400]
        ELSE IF ~Truthy(entryType) THEN [msg |-> "type not found", status |-> 400]
        ELSE IF entryType.t # "str" THEN [msg |-> "type must be a str", status |-> 400]
        ELSE IF entryType.s = "recipe"
             THEN IF ~isRecipeValid(entry)
                  THEN [msg |-> "invalid recipe", status |-> 400]
                  ELSE [msg |-> "success", status |-> 200]
        ELSE IF entryType.s = "ingredient"
             THEN IF ~isIngredientValid(entry)
                  THEN [msg |-> "invalid ingredient", status |-> 400]
                  ELSE [msg |-> "success", status |-> 200]
        ELSE [msg |-> "invalid type", status |-> 400]

\* the (body, status) pair create_entry returns for request body `entry`
CreateResult(cb, entry) ==
    LET entryName == entry.name
        entryType == entry.type
    IN  IF ~Truthy(entryName) THEN [msg |-> "name not found", status |-> 400]
        ELSE IF entryName.t # "str" THEN [msg |-> "name must be a str", status |-> 400]
        ELSE IF entryName.s \in DOMAIN cb
             THEN [msg |-> "entry already exists in cookbook", status |-> 400]
        ELSE IF ~Truthy(entryType) THEN [msg |-> "type not found", status |-> 400]
        ELSE IF entryType.t # "str" THEN [msg |-> "type must be a str", status |-> 400]
        ELSE IF entryType.s = "recipe"
             THEN IF ~isRecipeValid(entry)
                  THEN [msg |-> "invalid recipe", status |-> 400]
                  ELSE [msg |-> "success", status |-> 200]
        ELSE IF entryType.s = "ingredient"
             THEN IF ~isIngredientValid(entry)
                  THEN [msg |-> "invalid ingredient", status |-> 400]
                  ELSE [msg |-> "success", status |-> 200]
        ELSE [msg |-> "invalid type", status |-> 400]

\* cookbook[entryName] = entry
Store(cb, key, entry) ==
    [n \in (DOMAIN cb) \cup {key} |-> IF n = key THEN entry ELSE cb[n]]

TextResponse(op, r) ==
    [op |-> op, status |-> r.status, msg |-> r.msg,
     name |-> "", cookTime |-> 0, ingredients |-> <<>>]

\* POST /entry
create_entry(entry) ==
    LET r == CreateResult(cookbook, entry)
    IN  /\ cookbook' = IF r.status = 200 THEN Store(cookbook, entry.name.s, entry)
                       ELSE cookbook
        /\ response' = TextResponse("entry", r)
        /\ queried' = ""

(***************************************************************************)
(* Task 3: resolution.                                                     *)
(***************************************************************************)
Raise(e)        == [raised |-> TRUE,  error |-> e,  cookTime |-> 0,  ingredients |-> <<>>]
Return(ct, ing) == [raised |-> FALSE, error |-> "", cookTime |-> ct, ingredients |-> ing]

\* the inner for loop of handleItemInfo: fold itemIngredients into ingredients
RECURSIVE MergeIngredients(_, _, _)
MergeIngredients(ingredients, itemIngredients, j) ==
    IF j > Len(itemIngredients) THEN ingredients
    ELSE MergeIngredients(
            DictSet(ingredients, itemIngredients[j].name,
                    DictGet(ingredients, itemIngredients[j].name, 0)
                        + itemIngredients[j].quantity),
            itemIngredients, j + 1)

\* IsIngredientEntry with the comparison inverted
IsIngredientEntryInverted(entry) == entry.type # PyStr("ingredient")

\* entry['type'] == 'ingredient'
IsIngredientEntry(entry) == entry.type = PyStr("ingredient")

\* the ingredient branch: cook time times quantity, and {name: quantity}
IngredientInfo(entry, name, quantity) ==
    Return(entry.cookTime.i * quantity, <<[name |-> name, quantity |-> quantity]>>)

\* ItemQuantity without the caller's multiplier
ItemQuantityUnscaled(item, quantity) == item.quantity.i

\* itemQuantity = item['quantity'] * quantity
ItemQuantity(item, quantity) == item.quantity.i * quantity

\* handleItemInfo(name, quantity) called at recursion depth `depth`.
\* The return statement sits inside the body of the for loop, so the loop
\* leaves after the first element; with no element the function falls off its
\* end and the caller's tuple unpacking of None raises TypeError.
RECURSIVE handleItemInfo(_, _, _, _)
handleItemInfo(cb, name, quantity, depth) ==
    IF depth > RecursionLimit THEN Raise("maximum recursion depth exceeded")
    ELSE IF name \notin DOMAIN cb THEN Raise("recipe name not found in cookbook")
    ELSE LET entry == cb[name]
         IN  IF IsIngredientEntry(entry) THEN IngredientInfo(entry, name, quantity)
             ELSE IF entry.type # PyStr("recipe")
                  THEN Raise("what? there's a new entry type and you forgot to handle it here..")
             ELSE LET items == entry.requiredItems.l
                  IN  IF Len(items) = 0
                      THEN Raise("cannot unpack non-iterable NoneType object")
                      ELSE LET item == items[1]
                               sub  == handleItemInfo(cb, item.name.s,
                                                      ItemQuantity(item, quantity), depth + 1)
                           IN  IF sub.raised THEN sub
                               ELSE Return(0 + sub.cookTime,
                                           MergeIngredients(<<>>, sub.ingredients, 1))

\* SummaryResult without the `type != 'recipe'` test
SummaryResultAnyType(cb, name) ==
    IF name \notin DOMAIN cb
    THEN TextResponse("summary", [msg |-> "recipe not found in cookbook", status |-> 400])
    ELSE LET r == handleItemInfo(cb, name, 1, 1)
         IN  IF r.raised
             THEN TextResponse("summary", [msg |-> r.error, status |-> 400])
             ELSE [op |-> "summary", status |-> 200, msg |-> "",
                   name |-> name, cookTime |-> r.cookTime, ingredients |-> r.ingredients]

\* the response of GET /summary?name=<name>
SummaryResult(cb, name) ==
    IF name \notin DOMAIN cb
    THEN TextResponse("summary", [msg |-> "recipe not found in cookbook", status |-> 400])
    ELSE IF cb[name].type # PyStr("recipe")
    THEN TextResponse("summary",
                      [msg |-> "given name is not a recipe in the cookbook", status |-> 400])
    ELSE LET r == handleItemInfo(cb, name, 1, 1)
         IN  IF r.raised
             THEN TextResponse("summary", [msg |-> r.error, status |-> 400])
             ELSE [op |-> "summary", status |-> 200, msg |-> "",
                   name |-> name, cookTime |-> r.cookTime, ingredients |-> r.ingredients]

\* GET /summary
summary(name) ==
    /\ response' = SummaryResult(cookbook, name)
    /\ queried' = name
    /\ UNCHANGED cookbook

(***************************************************************************)
(* Requests that are submitted.                                            *)
(***************************************************************************)
\* the row each name is required with
Rows == {Item(PyStr("egg"), PyInt(3)), Item(PyStr("flour"), PyInt(2)), Item(PyStr("cake"), PyInt(2))}

\* lists of 1..MaxItems rows with pairwise distinct names
GoodLists ==
    UNION {{xs \in [1..n -> Rows] : \A a, b \in 1..n : a # b => xs[a].name # xs[b].name}
           : n \in 1..MaxItems}

BadLists ==
    { <<>>,
      <<Item(PyStr("egg"), PyInt(1)), Item(PyStr("egg"), PyInt(2))>>,
      <<Item(PyStr("egg"), PyInt(0))>>,
      <<Item(PyStr("egg"), PyInt(-1))>>,
      <<Item(PyStr("egg"), PyFloat(1))>>,
      <<Item(PyStr("egg"), PyBool(TRUE))>>,
      <<Item(PyStr("egg"), PyNone)>>,
      <<Item(PyStr(""), PyInt(1))>>,
      <<Item(PyNone, PyInt(1))>>,
      <<Item(PyInt(7), PyInt(1))>>,
      <<Item(PyStr("flour"), PyInt(2)), Item(PyStr("egg"), PyStr("3"))>> }

CookTimes == {PyInt(2), PyInt(5)}

BadCookTimes == {PyNone, PyInt(0), PyInt(-1), PyStr("5"), PyBool(TRUE), PyFloat(2)}

IngredientBodies ==
    {Entry(PyStr(n), PyStr("ingredient"), ct, PyNone) : n \in Names, ct \in CookTimes \cup BadCookTimes}

RecipeBodies ==
    {Entry(PyStr(n), PyStr("recipe"), PyNone, PyList(xs)) : n \in Names, xs \in GoodLists}
    \cup {Entry(PyStr("cake"), PyStr("recipe"), PyNone, PyList(xs)) : xs \in BadLists}
    \cup {Entry(PyStr("cake"), PyStr("recipe"), PyNone, ri) : ri \in {PyNone, PyStr("egg"), PyInt(3)}}

MalformedBodies ==
    {Entry(n, PyStr("ingredient"), PyInt(5), PyNone) : n \in {PyNone, PyStr(""), PyInt(7)}}
    \cup {Entry(PyStr("egg"), ty, PyInt(5), PyNone) : ty \in {PyNone, PyStr(""), PyInt(1), PyStr("soup")}}

Bodies == IngredientBodies \cup RecipeBodies \cup MalformedBodies

QueryNames == Names \cup {"soup"}

Init ==
    /\ cookbook = <<>>
    /\ response = [op |-> "none", status |-> 0, msg |-> "",
                   name |-> "", cookTime |-> 0, ingredients |-> <<>>]
    /\ queried = ""

Next ==
    \/ \E entry \in Bodies : create_entry(entry)
    \/ \E name \in QueryNames : summary(name)

Spec == Init /\ [][Next]_vars

(***************************************************************************)
(* Vocabulary of the properties.                                           *)
(***************************************************************************)
IsRecipe(cb, n)     == n \in DOMAIN cb /\ cb[n].type = PyStr("recipe")
IsIngredient(cb, n) == n \in DOMAIN cb /\ cb[n].type = PyStr("ingredient")

\* the rows of a stored recipe
RowsOf(cb, n) == cb[n].requiredItems.l

\* the names a stored recipe refers to, at any position
Refs(cb, n) ==
    IF IsRecipe(cb, n) THEN {RowsOf(cb, n)[j].name.s : j \in 1..Len(RowsOf(cb, n))} ELSE {}

\* the names the full expansion of the set S visits
RECURSIVE Reach(_, _)
Reach(cb, S) ==
    LET T == S \cup UNION {Refs(cb, n) : n \in S}
    IN  IF T = S THEN S ELSE Reach(cb, T)

\* some recipe the expansion of root visits leads back to itself
Cyclic(cb, root) == \E n \in Reach(cb, {root}) : n \in Reach(cb, Refs(cb, n))

\* the rows of a dict, whatever their order
DictRows(d) == {d[j] : j \in 1..Len(d)}

SummaryDone == response.op = "summary"
SummaryOk   == SummaryDone /\ response.status = 200

\* names a request body can carry that pass as a fresh non-empty string
FreshName(entry) ==
    entry.name.t = "str" /\ entry.name.s # "" /\ entry.name.s \notin DOMAIN cookbook

(***************************************************************************)
(* C1                                                                      *)
(***************************************************************************)
TwoIngredientRecipe(cb, n) ==
    /\ IsRecipe(cb, n)
    /\ Len(RowsOf(cb, n)) = 2
    /\ \A j \in 1..2 : IsIngredient(cb, RowsOf(cb, n)[j].name.s)
    /\ RowsOf(cb, n)[1].name.s # RowsOf(cb, n)[2].name.s

\* C1: a summary of a recipe with two rows (A, q1), (B, q2), A and B distinct
\* stored ingredients of cook times c1 and c2, succeeds with cook time
\* c1*q1 + c2*q2 and ingredients exactly {A: q1, B: q2}.
C1_SumsAllRequiredItems ==
    (SummaryDone /\ TwoIngredientRecipe(cookbook, queried)) =>
        LET a == RowsOf(cookbook, queried)[1]
            b == RowsOf(cookbook, queried)[2]
        IN  /\ response.status = 200
            /\ response.cookTime = cookbook[a.name.s].cookTime.i * a.quantity.i
                                   + cookbook[b.name.s].cookTime.i * b.quantity.i
            /\ Len(response.ingredients) = 2
            /\ DictRows(response.ingredients) =
                   {[name |-> a.name.s, quantity |-> a.quantity.i],
                    [name |-> b.name.s, quantity |-> b.quantity.i]}

(***************************************************************************)
(* C2                                                                      *)
(***************************************************************************)
\* cookTime present, an integer and >= 0
CookTimeAdmissible(entry) == entry.cookTime.t = "int" /\ entry.cookTime.i >= 0

\* C2: an ingredient body with a fresh string name is admitted exactly when
\* its cookTime is present, an integer and >= 0 (0 included); otherwise it is
\* rejected as invalid ingredient.
C2_IngredientAdmittedIffCookTimeNonNegative ==
    [][\A entry \in Bodies :
        (create_entry(entry) /\ FreshName(entry) /\ entry.type = PyStr("ingredient")) =>
            IF CookTimeAdmissible(entry)
            THEN /\ response'.status = 200
                 /\ entry.name.s \in DOMAIN cookbook'
                 /\ cookbook'[entry.name.s] = entry
            ELSE /\ response'.status = 400
                 /\ response'.msg = "invalid ingredient"
                 /\ cookbook' = cookbook]_vars

(***************************************************************************)
(* C3                                                                      *)
(***************************************************************************)
\* requiredItems is a sequence, of any length, of rows with a non-empty string
\* name and an integer quantity > 0, the names pairwise distinct
RequiredItemsAdmissible(entry) ==
    /\ entry.requiredItems.t = "list"
    /\ LET xs == entry.requiredItems.l
       IN  /\ \A j \in 1..Len(xs) :
                 /\ xs[j].name.t = "str" /\ xs[j].name.s # ""
                 /\ xs[j].quantity.t = "int" /\ xs[j].quantity.i > 0
           /\ \A j, k \in 1..Len(xs) : j # k => xs[j].name # xs[k].name

\* C3: a recipe body with a fresh string name is admitted exactly when its
\* requiredItems is a sequence of any length of well-formed rows with pairwise
\* distinct names; otherwise it is rejected as invalid recipe.
C3_RecipeAdmittedIffRequiredItemsWellFormed ==
    [][\A entry \in Bodies :
        (create_entry(entry) /\ FreshName(entry) /\ entry.type = PyStr("recipe")) =>
            IF RequiredItemsAdmissible(entry)
            THEN /\ response'.status = 200
                 /\ entry.name.s \in DOMAIN cookbook'
                 /\ cookbook'[entry.name.s] = entry
            ELSE /\ response'.status = 400
                 /\ response'.msg = "invalid recipe"
                 /\ cookbook' = cookbook]_vars

(***************************************************************************)
(* C4                                                                      *)
(***************************************************************************)
\* C4: in every reachable state no two stored entries share a name, and no
\* stored recipe has two rows with the same item name.
C4_Uniqueness ==
    /\ \A k1, k2 \in DOMAIN cookbook :
          cookbook[k1].name = cookbook[k2].name => k1 = k2
    /\ \A k \in DOMAIN cookbook : cookbook[k].name = PyStr(k)
    /\ \A k \in DOMAIN cookbook :
          IsRecipe(cookbook, k) =>
              \A a, b \in 1..Len(RowsOf(cookbook, k)) :
                  RowsOf(cookbook, k)[a].name = RowsOf(cookbook, k)[b].name => a = b

\* two entries stored, one a recipe of several rows, and a body with repeated
\* rows has just been turned down
C4_Witness ==
    /\ Cardinality(DOMAIN cookbook) >= 2
    /\ \E k \in DOMAIN cookbook : IsRecipe(cookbook, k) /\ Len(RowsOf(cookbook, k)) >= 2
    /\ response.op = "entry" /\ response.msg = "invalid recipe"

(***************************************************************************)
(* C5                                                                      *)
(***************************************************************************)
\* C5: a rejected POST /entry leaves the cookbook as it was, and whatever the
\* step every stored entry is still stored, unchanged, afterwards.
C5_AllOrNothing ==
    [][/\ (response'.op = "entry" /\ response'.status # 200) => cookbook' = cookbook
       /\ \A k \in DOMAIN cookbook :
             k \in DOMAIN cookbook' /\ cookbook'[k] = cookbook[k]]_vars

\* a stored name has just been submitted again and turned down
C5_Witness ==
    /\ response.op = "entry"
    /\ response.status = 400
    /\ response.msg = "entry already exists in cookbook"
    /\ Cardinality(DOMAIN cookbook) >= 1

(***************************************************************************)
(* C6                                                                      *)
(***************************************************************************)
\* C6: a summary of a stored recipe whose expansion names, at any position of
\* any recipe it reaches, an entry that is not stored fails with the
\* not-found error (stated for expansions without a cycle).
C6_NestedNotFound ==
    (/\ SummaryDone
     /\ IsRecipe(cookbook, queried)
     /\ ~Cyclic(cookbook, queried)
     /\ \E n \in Reach(cookbook, {queried}) : n \notin DOMAIN cookbook) =>
        /\ response.status = 400
        /\ response.msg = "recipe name not found in cookbook"

(***************************************************************************)
(* C7                                                                      *)
(***************************************************************************)
\* n heads a chain of one-row recipes that ends in a stored ingredient
RECURSIVE IsChain(_, _, _)
IsChain(cb, n, fuel) ==
    \/ IsIngredient(cb, n)
    \/ /\ IsRecipe(cb, n)
       /\ Len(RowsOf(cb, n)) = 1
       /\ fuel > 0
       /\ IsChain(cb, RowsOf(cb, n)[1].name.s, fuel - 1)

\* the ingredient a chain ends in
RECURSIVE ChainLeaf(_, _)
ChainLeaf(cb, n) ==
    IF IsIngredient(cb, n) THEN n ELSE ChainLeaf(cb, RowsOf(cb, n)[1].name.s)

\* the product q1 * ... * qk of the quantities along a chain
RECURSIVE ChainProduct(_, _)
ChainProduct(cb, n) ==
    IF IsIngredient(cb, n) THEN 1
    ELSE RowsOf(cb, n)[1].quantity.i * ChainProduct(cb, RowsOf(cb, n)[1].name.s)

ChainLength(cb, n) == Cardinality(Reach(cb, {n})) - 1

\* C7: a summary of the head R1 of a chain R1 -> ... -> Rk -> I of one-row
\* recipes with quantities q1..qk, I an ingredient of cook time c, reports
\* ingredients {I: q1*...*qk} and cook time c*q1*...*qk.
C7_ChainIsMultiplicative ==
    (/\ SummaryDone
     /\ IsRecipe(cookbook, queried)
     /\ IsChain(cookbook, queried, Cardinality(DOMAIN cookbook))) =>
        LET leaf == ChainLeaf(cookbook, queried)
            prod == ChainProduct(cookbook, queried)
        IN  /\ response.status = 200
            /\ response.name = queried
            /\ response.ingredients = <<[name |-> leaf, quantity |-> prod]>>
            /\ response.cookTime = cookbook[leaf].cookTime.i * prod

\* the chain cake -> 2 x flour -> 3 x egg, egg of cook time 5, has been
\* summarised: egg 6, cook time 30
C7_Witness ==
    /\ SummaryOk
    /\ IsRecipe(cookbook, queried)
    /\ IsChain(cookbook, queried, Cardinality(DOMAIN cookbook))
    /\ ChainLength(cookbook, queried) = 2
    /\ ChainProduct(cookbook, queried) = 6
    /\ response.cookTime = 30
    /\ response.ingredients = <<[name |-> "egg", quantity |-> 6]>>

(***************************************************************************)
(* C8                                                                      *)
(***************************************************************************)
\* C8: every key of the ingredients of a successful summary is the name of a
\* stored ingredient, never of a recipe, and every quantity is positive.
C8_OnlyIngredientsReported ==
    SummaryOk =>
        \A j \in 1..Len(response.ingredients) :
            /\ IsIngredient(cookbook, response.ingredients[j].name)
            /\ ~IsRecipe(cookbook, response.ingredients[j].name)
            /\ response.ingredients[j].quantity > 0

\* a successful summary whose root recipe reaches its ingredient through
\* another recipe
C8_Witness ==
    /\ SummaryOk
    /\ IsRecipe(cookbook, queried)
    /\ IsRecipe(cookbook, RowsOf(cookbook, queried)[1].name.s)
    /\ Len(response.ingredients) >= 1

(***************************************************************************)
(* C9                                                                      *)
(***************************************************************************)
\* C9: a summary of a recipe whose expansion contains a recipe that leads
\* back to itself, at any position of its rows, never completes with a result.
C9_CyclicNeverCompletes ==
    (SummaryDone /\ IsRecipe(cookbook, queried) /\ Cyclic(cookbook, queried)) =>
        response.status # 200

(***************************************************************************)
(* C10                                                                     *)
(***************************************************************************)
\* C10: a summary of a name that is not stored fails with not found, a summary
\* of a stored ingredient fails with not a recipe, and neither changes the
\* cookbook.
C10_RootQueryErrors ==
    [][(response'.op = "summary" /\ ~IsRecipe(cookbook, queried')) =>
          /\ response'.status = 400
          /\ queried' \notin DOMAIN cookbook =>
                 response'.msg = "recipe not found in cookbook"
          /\ IsIngredient(cookbook, queried') =>
                 response'.msg = "given name is not a recipe in the cookbook"
          /\ cookbook' = cookbook]_vars

\* a stored ingredient has been queried and turned down
C10_Witness ==
    /\ SummaryDone
    /\ IsIngredient(cookbook, queried)
    /\ response.status = 400
    /\ response.msg = "given name is not a recipe in the cookbook"

====
